---- MODULE Spec2Model ----
(***************************************************************************)
(* Model of the YaraScan worker plugin (worker/yara/yara/yarascan.py).     *)
(*                                                                         *)
(* One plugin instance is shared by                                        *)
(*   - the main thread, which runs activate() and with it the first        *)
(*     _load_yara_rules();                                                 *)
(*   - the watchdog observer thread, which delivers modification events    *)
(*     to on_modified() one after the other;                               *)
(*   - scan threads, each running scan() on one payload.                   *)
(* The shared attributes are self.rules, self.results and self.rule_lock.  *)
(***************************************************************************)
EXTENDS Integers, Sequences, FiniteSets, TLC

\* ------------------------------------------------------------------ bounds

\* number of modifications made to the rule file while the plugin runs
MaxMods == 2
\* the callback on its own: calls made, and string hits in one call's data
MaxCallbacks == 2
MaxStrings == 2
\* calls of _load_yara_rules that end, where the calls contend with each other
MaxReloads == 3

\* ----------------------------------------------------------------- threads

\* The two threads of the host that call scan(), one scan each, and the two
\* threads that call _load_yara_rules: the main thread (from activate) and
\* the observer thread (from on_modified).
Scans == {1, 2}
Loaders == {"main", "watch"}

\* ------------------------------------------------------- rules and payloads

\* Contents the rule file (self.yararules) can have.  "bad" is malformed.
SourceTexts == {"empty", "eicar", "bad"}

\* yara.compile / yara.load accept a rule text iff it is well formed
Compiles(text) == text # "bad"

\* A signature: its name and its one string (identifier, pattern), or no
\* string at all when its condition only looks at the payload's first byte.
SigEicar == [name |-> "EICAR", id |-> "$a", pat |-> "X5O"]
SigHead == [name |-> "XHEAD", id |-> "", pat |-> ""]

\* The signatures a rule text compiles to, in file order.
Signatures(text) ==
    IF text = "eicar" THEN <<SigEicar, SigHead>> ELSE <<>>

\* A compiled yara.Rules object: the text it was compiled from and the
\* identity of the object (stamp: the n-th object installed as self.rules; 0
\* for an object that is never installed).
RuleSet(text, stamp) == [src |-> text, stamp |-> stamp]
\* No rules object: the attribute self.rules is missing, or a local is None.
NoRules == [src |-> "-", stamp |-> 0]

\* Payloads: what they contain and how the engine behaves on them.
Payloads == {"clean", "eicar", "slow", "corrupt"}

\* offset at which pattern pat occurs in payload p, -1 when it does not
Find(p, pat) ==
    CASE pat = "X5O" /\ p = "eicar" -> 0
      [] pat = "X5O" /\ p = "slow" -> 12
      [] OTHER -> -1

\* the payload's first byte is "X"
HeadX(p) == p = "eicar"

\* What rules.match raises on a payload: yara.TimeoutError after 60 s,
\* yara.Error on an engine failure, or nothing.
Fault(p) ==
    CASE p = "slow" -> "timeout"
      [] p = "corrupt" -> "error"
      [] OTHER -> "none"

\* The dictionary yara hands to the callback for one rule on one payload.
RawMatch(sig, p) ==
    LET off == Find(p, sig.pat)
    IN  [rule |-> sig.name,
         matches |-> IF sig.pat = "" THEN HeadX(p) ELSE off >= 0,
         strings |-> IF off >= 0
                       THEN <<[off |-> [t |-> "int", v |-> off, s |-> <<>>],
                               id |-> sig.id, data |-> sig.pat]>>
                       ELSE <<>>]

\* ------------------------------------------------------------- str(offset)

Digit(d) ==
    CASE d = 0 -> "0" [] d = 1 -> "1" [] d = 2 -> "2" [] d = 3 -> "3"
      [] d = 4 -> "4" [] d = 5 -> "5" [] d = 6 -> "6" [] d = 7 -> "7"
      [] d = 8 -> "8" [] d = 9 -> "9"

RECURSIVE Decimal(_)
Decimal(n) == IF n < 10 THEN <<Digit(n)>>
              ELSE Decimal(n \div 10) \o <<Digit(n % 10)>>

\* Mutant: the offset is kept as the engine gave it.
Str_Kept(o) == o

\* str(key[0]): an int becomes its decimal text, a str stays as it is
Str(o) == IF o.t = "int"
            THEN [t |-> "str", v |-> 0, s |-> Decimal(o.v)]
            ELSE o

\* ----------------------------------------------------- alternate rulesets

\* The `yararules` keyword of scan(): absent, a StringIO object, or a path.
\* form: what the object holds ("source" text, a "compiled" ruleset as
\* written by rules.save, or "garbage").
NoRef == [kind |-> "none", form |-> "-", text |-> "-"]
SioSource == [kind |-> "stringio", form |-> "source", text |-> "eicar"]
SioGarbage == [kind |-> "stringio", form |-> "garbage", text |-> "bad"]
PathCompiled == [kind |-> "path", form |-> "compiled", text |-> "eicar"]
PathSource == [kind |-> "path", form |-> "source", text |-> "eicar"]
PathGarbage == [kind |-> "path", form |-> "garbage", text |-> "bad"]
Refs == {NoRef, SioSource, SioGarbage, PathCompiled, PathSource, PathGarbage}

\* The scan() calls the host makes: every payload on the default path and
\* on one alternate ruleset, and every kind of alternate reference on the
\* payload that its rules would match.
ScanInputs ==
    (Payloads \X {NoRef, PathSource}) \cup ({"eicar"} \X Refs)

\* yara.compile(source=...) / yara.compile(filepath=...): needs rule text
CompileOk(ref) == ref.form = "source" /\ Compiles(ref.text)
\* yara.load(filepath=...): needs a saved compiled ruleset
LoadOk(ref) == ref.form = "compiled" /\ Compiles(ref.text)

\* The local `rules` of _custom_scan after its try/except blocks.
CustomRules(ref) ==
    IF ref.kind = "stringio"
      THEN IF CompileOk(ref) THEN RuleSet(ref.text, 0) ELSE NoRules
      ELSE IF LoadOk(ref) THEN RuleSet(ref.text, 0)
           ELSE IF CompileOk(ref) THEN RuleSet(ref.text, 0)
           ELSE NoRules

\* ------------------------------------------------------------------- state

VARIABLES
    proc,        \* the process: "new", "activating", "running", "exited"
    file,        \* current content of the rule file self.yararules
    mods,        \* modifications made to the rule file so far
    rules,       \* self.rules (NoRules: the attribute does not exist yet)
    generation,  \* number of rules objects installed as self.rules so far
    rule_lock,   \* self.rule_lock is locked
    results,     \* self.results
    lpc,         \* position of each thread inside _load_yara_rules
    compiled,    \* the local compiled_rules of a running _load_yara_rules call
    loadFailures,\* number of _load_yara_rules calls that ended in the except block
    observer,    \* the watchdog observer: "none", "running", "stopped", "joined"
    events,      \* modification events queued for the observer thread
    spc,         \* state of each scan
    payload,     \* the payload argument of each scan
    ref,         \* the yararules keyword of each scan (NoRef: absent)
    startRules,  \* self.rules at the moment scan() was called without yararules
    used,        \* the rules object the scan resolved
    idx,         \* next rule the engine evaluates in the scan's running match call
    ret,         \* how scan() ended: the exception raised, or the value returned
                 \* as its caller holds it now
    held         \* the scans that returned the list object self.results names

vars == <<proc, file, mods, rules, generation, rule_lock, results, lpc,
          compiled, loadFailures, observer, events, spc, payload, ref,
          startRules, used, idx, ret, held>>

loadVars == <<rules, generation, rule_lock, lpc, compiled, loadFailures>>
scanVars == <<spc, payload, ref, startRules, used, idx, ret, held>>
watchVars == <<observer, events>>

\* scan() has not returned and has not raised
NoReturn == [kind |-> "pending", val |-> <<>>]
ReturnNone == [kind |-> "none", val |-> <<>>]
ReturnList(r) == [kind |-> "list", val |-> <<r>>]
Raised(e) == [kind |-> e, val |-> <<>>]

Terminal == {"Completed", "TimedOut", "Failed"}

\* __init__: the lock exists and is free; nothing else is set.
Init ==
    /\ proc = "new"
    /\ file \in SourceTexts
    /\ mods = 0
    /\ rules = NoRules
    /\ generation = 0
    /\ rule_lock = FALSE
    /\ results = <<>>
    /\ lpc = [t \in Loaders |-> "idle"]
    /\ compiled = [t \in Loaders |-> NoRules]
    /\ loadFailures = 0
    /\ observer = "none"
    /\ events = 0
    /\ spc = [s \in Scans |-> "Idle"]
    /\ payload = [s \in Scans |-> "clean"]
    /\ ref = [s \in Scans |-> NoRef]
    /\ startRules = [s \in Scans |-> NoRules]
    /\ used = [s \in Scans |-> NoRules]
    /\ idx = [s \in Scans |-> 0]
    /\ ret = [s \in Scans |-> NoReturn]
    /\ held = {}

\* ------------------------------------------------- activate and reloading

\* activate(): parse the options, then call _load_yara_rules (line 58).
Activate ==
    /\ proc = "new"
    /\ proc' = "activating"
    /\ lpc' = [lpc EXCEPT !["main"] = "acquire"]
    /\ UNCHANGED <<file, mods, rules, generation, rule_lock, results, compiled,
                   loadFailures, watchVars, scanVars>>

\* Mutant: _load_yara_rules goes on to compile without waiting for the lock.
LoadAcquire_NoWait(t) ==
    /\ proc # "exited"
    /\ lpc[t] = "acquire"
    /\ rule_lock' = TRUE
    /\ lpc' = [lpc EXCEPT ![t] = "compile"]
    /\ UNCHANGED <<proc, file, mods, rules, generation, results, compiled,
                   loadFailures, watchVars, scanVars>>

\* _load_yara_rules line 150: self.rule_lock.acquire()
LoadAcquire(t) ==
    /\ proc # "exited"
    /\ lpc[t] = "acquire"
    /\ ~rule_lock
    /\ rule_lock' = TRUE
    /\ lpc' = [lpc EXCEPT ![t] = "compile"]
    /\ UNCHANGED <<proc, file, mods, rules, generation, results, compiled,
                   loadFailures, watchVars, scanVars>>

\* Mutant: the except block names the rules globally although loading failed.
LoadExcept_ClearsRules(t) ==
    /\ loadFailures' = loadFailures + 1
    /\ lpc' = [lpc EXCEPT ![t] = "idle"]
    /\ proc' = IF rules = NoRules THEN "exited"
               ELSE IF t = "main" THEN "running" ELSE proc
    /\ rules' = NoRules
    /\ UNCHANGED <<generation, rule_lock, compiled>>

\* Mutant: the except block without the exit(-1) of the first load.
LoadExcept_NoExit(t) ==
    /\ loadFailures' = loadFailures + 1
    /\ lpc' = [lpc EXCEPT ![t] = "idle"]
    /\ proc' = IF t = "main" THEN "running" ELSE proc
    /\ UNCHANGED <<rules, generation, rule_lock, compiled>>

\* The except block of _load_yara_rules (lines 154-159): log; exit(-1) when
\* self.rules does not exist, otherwise fall off the end of the function.
\* The lock taken at line 150 is not released on this path.
LoadExcept(t) ==
    /\ loadFailures' = loadFailures + 1
    /\ lpc' = [lpc EXCEPT ![t] = "idle"]
    /\ proc' = IF rules = NoRules THEN "exited"
               ELSE IF t = "main" THEN "running" ELSE proc
    /\ UNCHANGED <<rules, generation, rule_lock, compiled>>

\* line 151: compiled_rules = yara.compile(self.yararules)
LoadCompile(t) ==
    /\ proc # "exited"
    /\ lpc[t] = "compile"
    /\ IF Compiles(file)
         THEN /\ compiled' = [compiled EXCEPT ![t] = RuleSet(file, generation + 1)]
              /\ lpc' = [lpc EXCEPT ![t] = "install"]
              /\ UNCHANGED <<proc, rules, generation, rule_lock, loadFailures>>
         ELSE LoadExcept(t)
    /\ UNCHANGED <<file, mods, results, watchVars, scanVars>>

\* lines 152-153: self.rules = compiled_rules; self.rule_lock.release();
\* the call returns, and with it activate() when the main thread made it.
LoadInstall(t) ==
    /\ proc # "exited"
    /\ lpc[t] = "install"
    /\ rules' = compiled[t]
    /\ generation' = generation + 1
    /\ rule_lock' = FALSE
    /\ lpc' = [lpc EXCEPT ![t] = "idle"]
    /\ compiled' = [compiled EXCEPT ![t] = NoRules]
    /\ proc' = IF t = "main" THEN "running" ELSE proc
    /\ UNCHANGED <<file, mods, results, loadFailures, watchVars, scanVars>>

\* ------------------------------------------------------------ the watcher

\* heartbeat() lines 163-168: start the observer on the rules directory.
HeartbeatStart ==
    /\ proc = "running"
    /\ observer = "none"
    /\ observer' = "running"
    /\ UNCHANGED <<proc, file, mods, results, events, loadVars, scanVars>>

\* The rule file is rewritten; a running observer queues an event for it.
Modify(text) ==
    /\ proc = "running"
    /\ mods < MaxMods
    /\ mods' = mods + 1
    /\ file' = text
    /\ events' = IF observer = "running" THEN events + 1 ELSE events
    /\ UNCHANGED <<proc, results, observer, loadVars, scanVars>>

\* The observer thread takes the next event and calls on_modified, which
\* calls _load_yara_rules (lines 127-129).
OnModified ==
    /\ proc = "running"
    /\ observer = "running"
    /\ events > 0
    /\ lpc["watch"] = "idle"
    /\ events' = events - 1
    /\ lpc' = [lpc EXCEPT !["watch"] = "acquire"]
    /\ UNCHANGED <<proc, file, mods, rules, generation, rule_lock, results,
                   compiled, loadFailures, observer, scanVars>>

\* heartbeat() lines 172-173: KeyboardInterrupt, observer.stop().  The
\* observer thread leaves its loop after the handler it is running; the
\* events still queued are dropped.
HeartbeatStop ==
    /\ proc = "running"
    /\ observer = "running"
    /\ observer' = "stopped"
    /\ events' = 0
    /\ UNCHANGED <<proc, file, mods, results, loadVars, scanVars>>

\* heartbeat() line 174: observer.join() returns once the observer thread
\* has finished the handler it was running.
HeartbeatJoin ==
    /\ proc = "running"
    /\ observer = "stopped"
    /\ lpc["watch"] = "idle"
    /\ observer' = "joined"
    /\ UNCHANGED <<proc, file, mods, results, events, loadVars, scanVars>>

\* ------------------------------------------------------------------- scan

\* _scan_callback lines 137-141: every offset through str(), the rest kept
RECURSIVE Hits(_)
Hits(strings) ==
    IF strings = <<>> THEN <<>>
    ELSE <<[off |-> Str(Head(strings).off), id |-> Head(strings).id,
            data |-> Head(strings).data]>> \o Hits(Tail(strings))

\* Mutant: the callback forgets the hits it has converted.
ScanCallback_LosesHits(res, data) ==
    IF data.matches
      THEN Append(res, [rule |-> data.rule, matches |-> data.matches,
                        strings |-> <<>>])
      ELSE res

\* _scan_callback: self.results after the callback ran on `data`
ScanCallback(res, data) ==
    IF data.matches
      THEN Append(res, [rule |-> data.rule, matches |-> data.matches,
                        strings |-> Hits(data.strings)])
      ELSE res

\* What one uninterrupted match call of `payload` against the rules object
\* rs leaves in an empty self.results: the callback applied to every rule.
RECURSIVE Collect(_, _, _)
Collect(sigs, p, res) ==
    IF sigs = <<>> THEN res
    ELSE Collect(Tail(sigs), p, ScanCallback(res, RawMatch(Head(sigs), p)))

MatchRecords(rs, p) == Collect(Signatures(rs.src), p, <<>>)

\* scan() is called (by the host, once activate() has returned): line 72,
\* self.results = [], then the thread goes for the lock.
ScanCall(s, p, r) ==
    /\ proc = "running"
    /\ spc[s] = "Idle"
    /\ \A o \in Scans : o < s => spc[o] # "Idle"
    /\ results' = <<>>
    /\ held' = {}
    /\ payload' = [payload EXCEPT ![s] = p]
    /\ ref' = [ref EXCEPT ![s] = r]
    /\ startRules' = [startRules EXCEPT ![s] = IF r = NoRef THEN rules ELSE NoRules]
    /\ spc' = [spc EXCEPT ![s] = "Pending"]
    /\ UNCHANGED <<proc, file, mods, used, idx, ret, loadVars, watchVars>>

\* Mutant: a scan whose alternate reference gives no rules object falls
\* back on self.rules.
Resolve_FallsBack(s) ==
    IF ref[s] # NoRef /\ CustomRules(ref[s]) # NoRules
      THEN CustomRules(ref[s]) ELSE rules

\* The rules object a scan that holds the lock goes on to match with:
\* the one _custom_scan builds (lines 101-120), or self.rules (line 83).
Resolve(s) == IF ref[s] # NoRef THEN CustomRules(ref[s]) ELSE rules

\* line 75, self.rule_lock.acquire(), then the choice of the rules object
ScanResolve(s) ==
    /\ proc = "running"
    /\ spc[s] = "Pending"
    /\ ~rule_lock
    /\ rule_lock' = TRUE
    /\ used' = [used EXCEPT ![s] = Resolve(s)]
    /\ spc' = [spc EXCEPT ![s] = "RuleSetResolved"]
    /\ UNCHANGED <<proc, file, mods, results, rules, generation, lpc, compiled,
                   loadFailures, payload, ref, startRules, idx, ret, watchVars, held>>

\* The match call begins (line 83 or line 123).  Without a rules object:
\* _custom_scan skips the call (line 122) and scan() goes on to release
\* the lock; on the default path self.rules raises AttributeError.
ScanMatchCall(s) ==
    /\ proc = "running"
    /\ spc[s] = "RuleSetResolved"
    /\ IF used[s] # NoRules
         THEN /\ spc' = [spc EXCEPT ![s] = "Matching"]
              /\ idx' = [idx EXCEPT ![s] = 1]
              /\ UNCHANGED <<rule_lock, ret>>
         ELSE IF ref[s] # NoRef
         THEN /\ spc' = [spc EXCEPT ![s] = "Released"]
              /\ rule_lock' = FALSE
              /\ UNCHANGED <<idx, ret>>
         ELSE /\ spc' = [spc EXCEPT ![s] = "Failed"]
              /\ ret' = [ret EXCEPT ![s] = Raised("AttributeError")]
              /\ UNCHANGED <<rule_lock, idx>>
    /\ UNCHANGED <<proc, file, mods, results, rules, generation, lpc, compiled,
                   loadFailures, payload, ref, startRules, used, watchVars, held>>

\* The engine evaluates the next rule and calls _scan_callback with it.
\* The callback appends to the list object self.results names (line 142):
\* a caller that was handed that very object at line 94 sees it grow.
ScanMatchStep(s) ==
    /\ proc = "running"
    /\ spc[s] = "Matching"
    /\ idx[s] <= Len(Signatures(used[s].src))
    /\ results' = ScanCallback(results,
                     RawMatch(Signatures(used[s].src)[idx[s]], payload[s]))
    /\ idx' = [idx EXCEPT ![s] = idx[s] + 1]
    /\ ret' = [o \in Scans |-> IF o \in held THEN ReturnList(results') ELSE ret[o]]
    /\ UNCHANGED <<proc, file, mods, spc, payload, ref, startRules, used,
                   loadVars, watchVars, held>>

\* Mutant: scan() catches what the match call raises and carries on to
\* release the lock and return what the callbacks collected.
ScanMatchRaise_Swallowed(s) ==
    /\ proc = "running"
    /\ spc[s] = "Matching"
    /\ Fault(payload[s]) # "none"
    /\ spc' = [spc EXCEPT ![s] = "Released"]
    /\ rule_lock' = FALSE
    /\ idx' = [idx EXCEPT ![s] = 0]
    /\ UNCHANGED <<proc, file, mods, results, rules, generation, lpc, compiled,
                   loadFailures, payload, ref, startRules, used, ret, watchVars, held>>

\* The match call raises (yara.TimeoutError, yara.Error): nothing in scan()
\* catches it, so scan() ends there, before line 86.
ScanMatchRaise(s) ==
    /\ proc = "running"
    /\ spc[s] = "Matching"
    /\ Fault(payload[s]) # "none"
    /\ spc' = [spc EXCEPT ![s] =
                 IF Fault(payload[s]) = "timeout" THEN "TimedOut" ELSE "Failed"]
    /\ ret' = [ret EXCEPT ![s] =
                 IF Fault(payload[s]) = "timeout" THEN Raised("TimeoutError")
                 ELSE Raised("Error")]
    /\ idx' = [idx EXCEPT ![s] = 0]
    /\ UNCHANGED <<proc, file, mods, results, payload, ref, startRules, used,
                   loadVars, watchVars, held>>

\* The match call returns; line 86, self.rule_lock.release().
ScanMatchReturn(s) ==
    /\ proc = "running"
    /\ spc[s] = "Matching"
    /\ idx[s] > Len(Signatures(used[s].src))
    /\ Fault(payload[s]) = "none"
    /\ rule_lock' = FALSE
    /\ spc' = [spc EXCEPT ![s] = "Released"]
    /\ idx' = [idx EXCEPT ![s] = 0]
    /\ UNCHANGED <<proc, file, mods, results, rules, generation, lpc, compiled,
                   loadFailures, payload, ref, startRules, used, ret, watchVars, held>>

\* ------------------------------------------------- the callback on its own

\* Offsets a callback can be handed: ints, as the engine reports them, and
\* one that is text already.
RawOffsets == {[t |-> "int", v |-> 0, s |-> <<>>],
               [t |-> "int", v |-> 12, s |-> <<>>],
               [t |-> "str", v |-> 0, s |-> <<"7">>]}

RawHits == [off : RawOffsets, id : {"$a"}, data : {"X5O"}]

\* Every dictionary the callback is tried on: a rule that matched or did
\* not, with no string hit or with up to MaxStrings of them.
RawDicts ==
    [rule : {"EICAR", "XHEAD"},
     matches : BOOLEAN,
     strings : UNION {[1..n -> RawHits] : n \in 0..MaxStrings}]

\* _scan_callback called on an instance that does nothing else.
CallbackInit == Init /\ file = "empty"

CallbackStep(d) ==
    /\ Len(results) < MaxCallbacks
    /\ results' = ScanCallback(results, d)
    /\ UNCHANGED <<proc, file, mods, loadVars, watchVars, scanVars>>

CallbackNext == \E d \in RawDicts : CallbackStep(d)

CallbackSpec == CallbackInit /\ [][CallbackNext]_vars

\* lines 90-96: what scan() returns when the test of line 90 found
\* self.results truthy or not, res being self.results as line 94 reads it
ScanResult(truthy, res) == IF truthy THEN ReturnList(res) ELSE ReturnNone

\* line 90, `if self.results:`, the first read of the attribute: an empty
\* list sends scan() to line 96, where it returns None.
ScanTest(s) ==
    /\ proc = "running"
    /\ spc[s] = "Released"
    /\ IF results # <<>>
         THEN /\ spc' = [spc EXCEPT ![s] = "Returning"]
              /\ UNCHANGED ret
         ELSE /\ spc' = [spc EXCEPT ![s] = "Completed"]
              /\ ret' = [ret EXCEPT ![s] = ScanResult(FALSE, results)]
    /\ UNCHANGED <<proc, file, mods, results, payload, ref, startRules, used,
                   idx, held, loadVars, watchVars>>

\* line 94, `return [self.results]`, the second read of the attribute: the
\* caller is handed the list object self.results names at this moment.
ScanReturn(s) ==
    /\ proc = "running"
    /\ spc[s] = "Returning"
    /\ ret' = [ret EXCEPT ![s] = ScanResult(TRUE, results)]
    /\ held' = held \cup {s}
    /\ spc' = [spc EXCEPT ![s] = "Completed"]
    /\ UNCHANGED <<proc, file, mods, results, payload, ref, startRules, used,
                   idx, loadVars, watchVars>>

\* ------------------------------------------------------- the specification

Next ==
    \/ Activate
    \/ \E t \in Loaders : LoadAcquire(t)
    \/ \E t \in Loaders : LoadCompile(t)
    \/ \E t \in Loaders : LoadInstall(t)
    \/ HeartbeatStart
    \/ \E text \in SourceTexts : Modify(text)
    \/ OnModified
    \/ HeartbeatStop
    \/ HeartbeatJoin
    \/ \E s \in Scans, in \in ScanInputs : ScanCall(s, in[1], in[2])
    \/ \E s \in Scans : ScanResolve(s)
    \/ \E s \in Scans : ScanMatchCall(s)
    \/ \E s \in Scans : ScanMatchStep(s)
    \/ \E s \in Scans : ScanMatchRaise(s)
    \/ \E s \in Scans : ScanMatchReturn(s)
    \/ \E s \in Scans : ScanTest(s)
    \/ \E s \in Scans : ScanReturn(s)

Spec == Init /\ [][Next]_vars

\* Every thread that can take a step of the program eventually takes it:
\* the interpreter schedules all threads.  Calls from outside (scan(),
\* file modifications, the interrupt) are under no obligation; the thread
\* of heartbeat(), once interrupted, goes on from line 173 to line 174.
FairSpec ==
    /\ Spec
    /\ WF_vars(Activate)
    /\ WF_vars(HeartbeatJoin)
    /\ \A t \in Loaders : WF_vars(LoadAcquire(t) \/ LoadCompile(t) \/ LoadInstall(t))
    /\ WF_vars(OnModified)
    /\ \A s \in Scans : WF_vars(\/ ScanResolve(s) \/ ScanMatchCall(s)
                                \/ ScanMatchStep(s) \/ ScanMatchRaise(s)
                                \/ ScanMatchReturn(s) \/ ScanTest(s)
                                \/ ScanReturn(s))

\* --------------------------------------------- reloads against each other

\* _load_yara_rules called on an activated instance from either thread at
\* any moment, as when the observer is already dispatching while the thread
\* of activate() loads: the calls meet at the lock of line 150.
ReloadInit ==
    /\ proc = "running"
    /\ file \in {text \in SourceTexts : Compiles(text)}
    /\ mods = 0
    /\ rules = RuleSet(file, 1)
    /\ generation = 1
    /\ rule_lock = FALSE
    /\ results = <<>>
    /\ lpc = [t \in Loaders |-> "idle"]
    /\ compiled = [t \in Loaders |-> NoRules]
    /\ loadFailures = 0
    /\ observer = "none"
    /\ events = 0
    /\ spc = [s \in Scans |-> "Idle"]
    /\ payload = [s \in Scans |-> "clean"]
    /\ ref = [s \in Scans |-> NoRef]
    /\ startRules = [s \in Scans |-> NoRules]
    /\ used = [s \in Scans |-> NoRules]
    /\ idx = [s \in Scans |-> 0]
    /\ ret = [s \in Scans |-> NoReturn]
    /\ held = {}

\* line 145: thread t enters _load_yara_rules
ReloadCall(t) ==
    /\ proc = "running"
    /\ lpc[t] = "idle"
    /\ generation + loadFailures <= MaxReloads
    /\ lpc' = [lpc EXCEPT ![t] = "acquire"]
    /\ UNCHANGED <<proc, file, mods, rules, generation, rule_lock, results,
                   compiled, loadFailures, watchVars, scanVars>>

ReloadNext ==
    \/ \E t \in Loaders : ReloadCall(t)
    \/ \E t \in Loaders : LoadAcquire(t)
    \/ \E t \in Loaders : LoadCompile(t)
    \/ \E t \in Loaders : LoadInstall(t)
    \/ \E text \in SourceTexts : Modify(text)

ReloadSpec == ReloadInit /\ [][ReloadNext]_vars

\* ------------------------------------------------------------------ claims

\* the scan has taken the lock and chosen its rules object
Resolved == {"RuleSetResolved", "Matching", "Released", "Returning",
             "Completed", "TimedOut", "Failed"}

\* a reload has failed while a RuleSet was active
ReloadFailed == loadFailures > 0 /\ rules # NoRules

\* the yararules keyword names nothing that loads or compiles
Unresolvable(r) == r # NoRef /\ CustomRules(r) = NoRules

\* scan() returned a sequence with nothing in it
ReturnEmpty == [kind |-> "list", val |-> <<>>]

\* the scan ran the matcher and the matcher reported no match
ZeroMatches(s) ==
    /\ spc[s] = "Completed"
    /\ used[s] # NoRules
    /\ MatchRecords(used[s], payload[s]) = <<>>

\* C1: a _load_yara_rules call whose compile fails while a RuleSet is active
\* leaves self.rules the very object it was and the generation as it was;
\* self.rules changes only in the one step that installs the object a
\* successful compile produced, and the generation counts exactly those steps.
C1_FailedReloadKeepsRules ==
    [][/\ \A t \in Loaders :
            (lpc[t] = "compile" /\ lpc'[t] = "idle" /\ rules # NoRules)
                => (rules' = rules /\ generation' = generation)
       /\ rules' # rules =>
            \E t \in Loaders : /\ lpc[t] = "install" /\ lpc'[t] = "idle"
                               /\ rules' = compiled[t]
                               /\ Compiles(rules'.src)
                               /\ generation' = generation + 1
       /\ generation' # generation => rules' # rules]_vars

\* C1 witness: a reload has failed with a RuleSet active, and it is still there
C1_Witness ==
    /\ ReloadFailed
    /\ lpc["watch"] = "idle"
    /\ generation = 1
    /\ rules.stamp = 1

\* C2: once a reload has failed with a prior RuleSet active, every scan that
\* is started (called, not yet past the lock) eventually reaches a terminal
\* state.
C2_ScansServedAfterFailedReload ==
    \A s \in Scans :
        [](ReloadFailed /\ spc[s] = "Pending" => <>(spc[s] \in Terminal))

\* C3: after a failed reload, a queued modification event for a rule file
\* that compiles eventually leads to a newly installed RuleSet (unless the
\* observer is stopped first).
C3_WatcherReloadsAfterFailure ==
    \A g \in 0..(MaxMods + 1) :
        [](/\ ReloadFailed /\ generation = g
           /\ observer = "running" /\ events > 0 /\ Compiles(file)
           => <>(generation > g \/ observer # "running"))

\* C4: a scan on the default path matches against the RuleSet that was
\* current when the scan was started, whatever reload completes meanwhile.
C4_ScanUsesRulesAtStart ==
    \A s \in Scans :
        (ref[s] = NoRef /\ spc[s] \in Resolved) => used[s] = startRules[s]

\* C5: a scan that is started while a reload is between its acquire and its
\* release can take its RuleSet without waiting for that reload.
C5_ReadersNeverBlockOnReload ==
    \A s \in Scans :
        (spc[s] = "Pending" /\ \E t \in Loaders : lpc[t] \in {"compile", "install"})
            => ENABLED ScanResolve(s)

\* C6: a reload that is triggered while a scan is in its match call can take
\* the lock, compile and install without waiting for the match call.
C6_ScanNeverBlocksReload ==
    \A s \in Scans, t \in Loaders :
        (spc[s] = "Matching" /\ lpc[t] = "acquire") => ENABLED LoadAcquire(t)

\* C7: a scan that ran its match call and whose matcher reported zero
\* matches (a RuleSet with zero signatures included) has returned an empty
\* sequence of records, never None.
C7_ZeroMatchesReturnEmpty ==
    \A s \in Scans :
        ZeroMatches(s) => ret[s] \in {ReturnEmpty, ReturnList(<<>>)}

\* C8: a scan with an alternate reference that neither loads nor compiles
\* ends in a failure raised to the caller, not in the return of a scan that
\* ran and found nothing.
C8_UnresolvedRefFails ==
    \A s \in Scans :
        (Unresolvable(ref[s]) /\ spc[s] \in Terminal)
            => (spc[s] = "Failed" /\ ret[s].kind \notin {"none", "list"})

\* C9: a scan whose match call exceeds the timeout ends TimedOut with
\* yara.TimeoutError raised to the caller: it returns neither None nor any
\* record, whatever the callbacks had collected.
C9_TimeoutIsAnError ==
    \A s \in Scans :
        /\ spc[s] = "TimedOut" => ret[s] = Raised("TimeoutError")
        /\ (Fault(payload[s]) = "timeout" /\ used[s] # NoRules
              /\ spc[s] \in {"Released", "Returning", "Completed",
                            "TimedOut", "Failed"})
               => spc[s] = "TimedOut"

\* C9 witness: a scan has timed out after its callbacks collected a record
C9_Witness ==
    \E s \in Scans : /\ spc[s] = "TimedOut"
                     /\ results # <<>>
                     /\ \A o \in Scans \ {s} : spc[o] = "Idle"

\* C10: when the first load fails the process exits inside activate: no
\* scan is ever called and nothing is installed; activate returns only with
\* a RuleSet installed, so every scan on the default path finds one.
C10_FirstLoadFailureIsFatal ==
    /\ (loadFailures > 0 /\ rules = NoRules) => proc = "exited"
    /\ proc = "exited" => (generation = 0 /\ \A s \in Scans : spc[s] = "Idle")
    /\ proc = "running" => rules # NoRules
    /\ \A s \in Scans :
          (ref[s] = NoRef /\ spc[s] \in Resolved)
              => (used[s] # NoRules /\ ret[s] # Raised("AttributeError"))

\* C10 witness: the first load has failed and the process has exited
C10_Witness ==
    /\ proc = "exited"
    /\ loadFailures = 1
    /\ file = "bad"

\* the records in the list scan() handed to its caller, as the caller finds
\* them now (none when it returned None)
Returned(s) == IF ret[s].kind = "list" THEN ret[s].val[1] ELSE <<>>

\* C11: two scans that matched the same payload against the same RuleSet
\* have returned the same, identically ordered, result.
C11_RepeatedScansAgree ==
    \A s \in Scans, o \in Scans :
        (/\ spc[s] = "Completed" /\ spc[o] = "Completed"
         /\ used[s] # NoRules /\ used[s] = used[o]
         /\ payload[s] = payload[o])
            => ret[s] = ret[o]

\* C17: the result a scan returns holds exactly the records that matching
\* its own payload against its own RuleSet produces, in callback order.
C17_ResultIsOwnRecords ==
    \A s \in Scans :
        (spc[s] = "Completed" /\ used[s] # NoRules)
            => Returned(s) = MatchRecords(used[s], payload[s])

\* the record the callback appends for the dictionary raw
Normal(rec, raw) ==
    /\ raw.matches
    /\ rec.rule = raw.rule
    /\ rec.matches
    /\ Len(rec.strings) = Len(raw.strings)
    /\ \A j \in 1..Len(raw.strings) :
          /\ rec.strings[j].id = raw.strings[j].id
          /\ rec.strings[j].data = raw.strings[j].data
          /\ rec.strings[j].off.t = "str"

\* the records that exist: in self.results or in what a scan returned
Records ==
    {results[i] : i \in 1..Len(results)}
        \cup UNION {{Returned(s)[i] : i \in 1..Len(Returned(s))} : s \in Scans}

\* C12 as stated: every record that exists has at least one
\* (offset, identifier, matched-bytes) triple.
C12_RecordsHaveHits == \A rec \in Records : rec.strings # <<>>

\* C12 as amended: every record that exists is the record of a signature
\* that matched, with one triple for each string hit the engine reported
\* and in the engine's order: none for a signature that matches without a
\* string hit.
C12_RecordsKeepEngineHits ==
    \A rec \in Records :
        \E text \in SourceTexts, p \in Payloads :
            \E i \in 1..Len(Signatures(text)) :
                Normal(rec, RawMatch(Signatures(text)[i], p))

\* C12 witness: a scan has returned a record with a hit and one without
C12_Witness ==
    \E s \in Scans :
        /\ spc[s] = "Completed"
        /\ Len(Returned(s)) = 2
        /\ Returned(s)[1].strings # <<>>
        /\ Returned(s)[2].strings = <<>>

\* C13: every record in self.results is the record of a signature that
\* matched, and every offset in it is text, whether the callback was handed
\* an int or text.
C13_OffsetsAreText ==
    \A i \in 1..Len(results) :
        /\ results[i].matches
        /\ \A j \in 1..Len(results[i].strings) :
              /\ results[i].strings[j].off.t = "str"
              /\ results[i].strings[j].off.s # <<>>

\* C13 witness: a record holds the text of an int offset and an offset that
\* was text when it came in
C13_Witness ==
    /\ Len(results) = MaxCallbacks
    /\ Len(results[1].strings) = 2
    /\ results[1].strings[1].off.s = <<"1", "2">>
    /\ results[1].strings[2].off.s = <<"7">>

\* The steps a scan takes through the states of the specification, with
\* "Released" and "Returning" the parts of a completing scan between line
\* 86 and its return.
ScanPath(s) ==
    \/ spc[s] = "Idle" /\ spc'[s] = "Pending"
    \/ spc[s] = "Pending" /\ spc'[s] = "RuleSetResolved"
    \/ spc[s] = "RuleSetResolved" /\ spc'[s] = "Matching" /\ used[s] # NoRules
    \/ spc[s] = "Matching" /\ spc'[s] \in {"Released", "TimedOut", "Failed"}
    \/ spc[s] = "Released" /\ spc'[s] \in {"Returning", "Completed"}
    \/ spc[s] = "Returning" /\ spc'[s] = "Completed"

\* the matcher is called: the match call of line 83 or 123 begins
MatcherInvoked(s) == idx[s] = 0 /\ idx'[s] = 1

\* C14: every change of a scan's state is a step of
\* Pending -> RuleSetResolved -> Matching -> {Completed, TimedOut, Failed},
\* the matcher is invoked only on entering Matching (so at most once, the
\* path having no way back), and a scan in a terminal state stays in it.
C14_ScanFollowsPath ==
    [][\A s \in Scans :
         /\ spc'[s] # spc[s] => ScanPath(s)
         /\ MatcherInvoked(s) => spc[s] = "RuleSetResolved" /\ spc'[s] = "Matching"
         /\ spc[s] \in Terminal => spc'[s] = spc[s]]_vars

\* the threads inside the section of _load_yara_rules between the acquire of
\* line 150 and the release of line 153
InSection == {t \in Loaders : lpc[t] \in {"compile", "install"}}

\* C15: at no time are two _load_yara_rules calls between lines 150 and 153
\* together; the call that is there holds the lock; and self.rules is the
\* object of the latest install, which the call that entered the section
\* last before it compiled (its stamp is the count of installs).
C15_ReloadsSerialized ==
    /\ Cardinality(InSection) <= 1
    /\ InSection # {} => rule_lock
    /\ rules.stamp = generation
    /\ \A t \in Loaders :
           lpc[t] = "install" => compiled[t].stamp = generation + 1

\* C15 witness: the second install of two calls that contended is about to
\* happen while the other thread, back in a third call, waits at the lock
C15_Witness ==
    /\ lpc["watch"] = "install"
    /\ lpc["main"] = "acquire"
    /\ generation = 2
    /\ compiled["watch"].src # rules.src

\* C16: once observer.stop() has been called, observer.join() returns and
\* with it heartbeat(): the handler in progress completes, and from then on
\* no event reaches on_modified and no reload is started.
C16_StopReturns ==
    [](observer = "stopped" => <>(observer = "joined" /\ lpc["watch"] = "idle"))

\* C18: the step that ends a scan's hold on the rules object, whether the
\* match call returned or raised, leaves rule_lock free.
C18_LockFreeAfterScan ==
    [][\A s \in Scans :
         (/\ spc[s] \in {"RuleSetResolved", "Matching"}
          /\ spc'[s] \in Terminal \cup {"Released"})
             => ~rule_lock']_vars

\* C19: no step of a scan changes self.rules; a scan called with yararules
\* resolves the object _custom_scan builds from the reference (no object
\* when it neither loads nor compiles), never self.rules, and a scan called
\* without it resolves self.rules; every callback of the scan's match call
\* comes from the object it resolved; and self.rules changes only in the
\* install step of a _load_yara_rules call whose compile succeeded.
C19_ScanLeavesRulesAlone ==
    [][/\ \A s \in Scans :
            /\ (spc'[s] # spc[s] \/ idx'[s] # idx[s])
                   => (rules' = rules /\ generation' = generation)
            /\ (spc[s] = "Pending" /\ spc'[s] = "RuleSetResolved")
                   => used'[s] = IF ref[s] = NoRef THEN rules
                                 ELSE CustomRules(ref[s])
            /\ (ref[s] # NoRef /\ spc'[s] \in Resolved) => used'[s] # rules'
            /\ spc[s] \in Resolved => used'[s] = used[s]
            /\ (idx[s] >= 1 /\ idx'[s] = idx[s] + 1)
                   => results' = ScanCallback(results,
                          RawMatch(Signatures(used[s].src)[idx[s]], payload[s]))
       /\ rules' # rules =>
            \E t \in Loaders : /\ lpc[t] = "install" /\ lpc'[t] = "idle"
                               /\ rules' = compiled[t]
                               /\ Compiles(rules'.src)]_vars

\* C19 witness: one scan's alternate reference gave nothing and the scan has
\* completed, the other's alternate rules have matched what the current
\* RuleSet, compiled from other text, would not
C19_Witness ==
    \E s, o \in Scans :
        /\ spc[s] = "Completed" /\ Unresolvable(ref[s]) /\ used[s] = NoRules
        /\ spc[o] = "Matching" /\ ref[o] = PathCompiled
        /\ used[o] = RuleSet("eicar", 0)
        /\ idx[o] = 2 /\ results # <<>>
        /\ rules = RuleSet("empty", 1)

====
